---- MODULE Spec2Model ----
(***************************************************************************)
(* Model of the MRP label merger (src/app.py): a spreadsheet "Item         *)
(* Summary" is validated, blank rows are dropped, and every remaining row  *)
(* is resolved to a label file that is appended `quantity` times to the    *)
(* merged output.                                                          *)
(*                                                                         *)
(* A spreadsheet cell is a record [k, v]: k = "nan" for an empty cell,     *)
(* k = "str" for a text cell that is not a number, and k = "num" for a     *)
(* number, whose value is v / 2 (v counts halves, so that 1 stands for 0.5 *)
(* and 5 for 2.5 and int() has something to truncate).                     *)
(***************************************************************************)
EXTENDS Integers, Sequences, FiniteSets

VARIABLES
    has_sheet,        \* "Item Summary" in excel_file.sheet_names
    column_mapping,   \* the lower-cased, stripped header names of the sheet
    sheet,            \* the rows of the sheet as read by pd.read_excel
    label_folder,     \* Path("mrp_label").exists()
    label_files,      \* the ids n for which mrp_label/n.pdf exists
    df,               \* the data frame after dropna, each row with its index label
    pc,               \* where the script is
    pos,              \* position of df.iterrows() (1-based; 0 before the loop)
    merger,           \* the PdfMerger: one entry (the file's id) per append
    total_pages,
    processed_items,
    missing_pdfs,
    errors,
    use_id,           \* the local use_id (NoId while unassigned)
    progress,         \* the local progress, as <<numerator, denominator>>
    report,           \* the summary metrics have been displayed
    download,         \* the download button has been offered
    faults            \* per visited row: which append raised (0: none)

vars == <<has_sheet, column_mapping, sheet, label_folder, label_files, df, pc,
          pos, merger, total_pages, processed_items, missing_pdfs, errors,
          use_id, progress, report, download, faults>>

\* Longest spreadsheet considered.
MaxRows == 2

NaN == [k |-> "nan", v |-> 0]
Text == [k |-> "str", v |-> 0]
Num(h) == [k |-> "num", v |-> h]

\* Cell contents considered for each column: item ids 1; variation ids
\* 0, 0.5 and 3; quantities -1, 0, 0.5, 1 and 2.5.
ItemCells == {NaN, Num(2)}
VariationCells == {NaN, Num(0), Num(1), Num(6)}
QuantityCells == {NaN, Text, Num(-2), Num(0), Num(1), Num(2), Num(5)}

\* Label stores considered: every set of files among 1.pdf and 3.pdf.
LabelIds == {1, 3}

NoId == -1

required_columns_lower == {"item id", "variation id", "quantity"}

\* The rows a sheet with the given headers can hold: a column that is not
\* in the sheet has no cells.
RowsOf(cols) ==
    [item : IF "item id" \in cols THEN ItemCells ELSE {NaN},
     variation : IF "variation id" \in cols THEN VariationCells ELSE {NaN},
     quantity : IF "quantity" \in cols THEN QuantityCells ELSE {NaN}]

SheetsOf(cols) == UNION {[1..n -> RowsOf(cols)] : n \in 0..MaxRows}

----------------------------------------------------------------------------
\* pd.isna / pd.notna
IsNa(c) == c.k = "nan"

\* int(x) of a number: truncation towards zero.
ToInt(c) == IF c.v >= 0 THEN c.v \div 2 ELSE -((-c.v) \div 2)

\* int(x) raises ValueError for NaN and for text that is no number.
IntRaises(c) == c.k # "num"

\* `quantity <= 0` raises TypeError when quantity is text.
CompareRaises(c) == c.k = "str"

QuantitySkipped_OnlyNegative(q) == IsNa(q) \/ (q.k = "num" /\ q.v < 0)

\* line 93: pd.isna(quantity) or quantity <= 0
QuantitySkipped(q) == IsNa(q) \/ (q.k = "num" /\ q.v <= 0)

UsesVariation_ZeroIncluded(var) == ~IsNa(var)

\* line 100: pd.notna(variation_id) and variation_id != 0
UsesVariation(var) == ~IsNa(var) /\ ~(var.k = "num" /\ var.v = 0)

\* lines 100-103: the cell whose int() becomes use_id
IdCell(item, var) == IF UsesVariation(var) THEN var ELSE item

\* line 109: pdf_path.exists()
PdfExists(id) == id \in label_files

\* lines 114-116: n appends of the same file
Copies(id, n) == [i \in 1..n |-> id]

AppendCopies_Prepend(m, id, n) == Copies(id, n) \o m

AppendCopies(m, id, n) == m \o Copies(id, n)

CountPages_PerRow(total, n) == total + 1

\* line 116, once per successful append
CountPages(total, n) == total + n

RecordMissing_Dedup(missing, id) ==
    IF \E i \in 1..Len(missing) : missing[i] = id THEN missing
    ELSE Append(missing, id)

\* line 110
RecordMissing(missing, id) == Append(missing, id)

\* line 121: f"Row {idx + 2}: {str(e)}"
RowError(idx, e) == [row |-> idx + 2, e |-> e]

\* line 124: (idx + 1) / len(df)
ProgressOf(idx, n) == <<idx + 1, n>>

\* st.progress raises StreamlitAPIException unless 0.0 <= value <= 1.0
ProgressRaises(p) == p[1] < 0 \/ p[1] > p[2]

\* line 59: dropna(subset=[...], how='all') keeps each row's index label
RECURSIVE DropNaFrom(_, _)
DropNaFrom(rows, i) ==
    IF i > Len(rows) THEN <<>>
    ELSE LET r == rows[i]
             rest == DropNaFrom(rows, i + 1)
         IN IF IsNa(r.item) /\ IsNa(r.variation) /\ IsNa(r.quantity)
            THEN rest
            ELSE <<[idx |-> i - 1, item |-> r.item, variation |-> r.variation,
                    quantity |-> r.quantity]>> \o rest

DropNa(rows) == DropNaFrom(rows, 1)

----------------------------------------------------------------------------
Init ==
    /\ has_sheet \in BOOLEAN
    /\ column_mapping \in SUBSET required_columns_lower
    /\ has_sheet = FALSE => column_mapping = {}
    /\ sheet \in SheetsOf(column_mapping)
    /\ label_folder \in BOOLEAN
    /\ label_files \in SUBSET LabelIds
    /\ label_folder = FALSE => label_files = {}
    /\ df = <<>>
    /\ pc = "uploaded"
    /\ pos = 0
    /\ merger = <<>>
    /\ total_pages = 0
    /\ processed_items = 0
    /\ missing_pdfs = <<>>
    /\ errors = <<>>
    /\ use_id = NoId
    /\ progress = <<0, 1>>
    /\ report = FALSE
    /\ download = FALSE
    /\ faults = <<>>

\* lines 16-63: the sheet and its columns are validated, blank rows dropped
Validate ==
    /\ pc = "uploaded"
    /\ IF has_sheet /\ required_columns_lower \subseteq column_mapping
       THEN pc' = "preview" /\ df' = DropNa(sheet)
       ELSE pc' = "stopped" /\ df' = df
    /\ UNCHANGED <<has_sheet, column_mapping, sheet, label_folder, label_files,
                   pos, merger, total_pages, processed_items, missing_pdfs,
                   errors, use_id, progress, report, download, faults>>

FolderMissing_Unchecked == FALSE

\* line 77: not label_folder.exists()
FolderMissing == ~label_folder

\* lines 66-83: the button is pressed; the label folder must exist
StartProcessing ==
    /\ pc = "preview"
    /\ IF FolderMissing
       THEN pc' = "stopped" /\ pos' = pos
       ELSE pc' = "loop" /\ pos' = 1
    /\ UNCHANGED <<has_sheet, column_mapping, sheet, label_folder, label_files,
                   df, merger, total_pages, processed_items, missing_pdfs,
                   errors, use_id, progress, report, download, faults>>

\* The appends that may raise while a row is merged: 0 for none, k for the
\* k-th of its copies.  A row that never reaches the append loop has none.
ReachesAppend(row) ==
    /\ ~QuantitySkipped(row.quantity)
    /\ ~CompareRaises(row.quantity)
    /\ ~IntRaises(IdCell(row.item, row.variation))
    /\ PdfExists(ToInt(IdCell(row.item, row.variation)))

FaultChoices(row) ==
    IF ReachesAppend(row) THEN 0..ToInt(row.quantity) ELSE {0}

\* lines 87-121: the body of the per-row try, with the append number f
\* raising (0: none).  exit is "continue" when the body leaves the
\* iteration and "end" when control reaches the progress update.
TryBody(row, f) ==
    LET q == row.quantity
        cur == [merger |-> merger, total_pages |-> total_pages,
                processed_items |-> processed_items,
                missing_pdfs |-> missing_pdfs, errors |-> errors,
                use_id |-> use_id, exit |-> "end"]
        idc == IdCell(row.item, row.variation)
        id == ToInt(idc)
        n == ToInt(q)
    IN  IF CompareRaises(q)
          THEN [cur EXCEPT !.errors = Append(errors, RowError(row.idx, "TypeError"))]
        ELSE IF QuantitySkipped(q)
          THEN [cur EXCEPT !.exit = "continue"]
        ELSE IF IntRaises(idc)
          THEN [cur EXCEPT !.errors = Append(errors, RowError(row.idx, "ValueError"))]
        ELSE IF ~PdfExists(id)
          THEN [cur EXCEPT !.use_id = id,
                           !.missing_pdfs = RecordMissing(missing_pdfs, id),
                           !.exit = "continue"]
        ELSE IF f = 0
          THEN [cur EXCEPT !.use_id = id,
                           !.merger = AppendCopies(merger, id, n),
                           !.total_pages = CountPages(total_pages, n),
                           !.processed_items = processed_items + 1]
        ELSE [cur EXCEPT !.use_id = id,
                         !.merger = AppendCopies(merger, id, f - 1),
                         !.total_pages = CountPages(total_pages, f - 1),
                         !.errors = Append(errors, RowError(row.idx, "IOError"))]

\* lines 86-126: one iteration of the row loop, progress update included
ProcessRow ==
    /\ pc = "loop"
    /\ pos <= Len(df)
    /\ \E f \in FaultChoices(df[pos]) :
         LET row == df[pos]
             r == TryBody(row, f)
             p == ProgressOf(row.idx, Len(df))
         IN /\ merger' = r.merger
            /\ total_pages' = r.total_pages
            /\ processed_items' = r.processed_items
            /\ missing_pdfs' = r.missing_pdfs
            /\ errors' = r.errors
            /\ use_id' = r.use_id
            /\ faults' = Append(faults, f)
            /\ IF r.exit = "continue"
               THEN progress' = progress /\ pos' = pos + 1 /\ pc' = pc
               ELSE /\ progress' = p
                    /\ IF ProgressRaises(p)
                       THEN pc' = "failed" /\ pos' = pos
                       ELSE pc' = pc /\ pos' = pos + 1
    /\ UNCHANGED <<has_sheet, column_mapping, sheet, label_folder, label_files,
                   df, report, download>>

\* lines 128-173: the merged PDF is written and the summary displayed
Finalize ==
    /\ pc = "loop"
    /\ pos > Len(df)
    /\ pc' = "done"
    /\ report' = TRUE
    /\ download' = (total_pages > 0)
    /\ UNCHANGED <<has_sheet, column_mapping, sheet, label_folder, label_files,
                   df, pos, merger, total_pages, processed_items, missing_pdfs,
                   errors, use_id, progress, faults>>

Next == Validate \/ StartProcessing \/ ProcessRow \/ Finalize

Spec == Init /\ [][Next]_vars

----------------------------------------------------------------------------
(* The rows as the specification describes them.                           *)

\* the quantity is a number greater than zero
PositiveQuantity(row) == row.quantity.k = "num" /\ row.quantity.v > 0

\* variationId when it is present and not zero, else itemId
EffectiveCell(row) ==
    IF row.variation = NaN \/ row.variation = Num(0) THEN row.item
    ELSE row.variation

\* the row passes the quantity check and its identifier coerces to an integer
Resolves(row) == PositiveQuantity(row) /\ EffectiveCell(row).k = "num"

EffectiveId(row) == ToInt(EffectiveCell(row))

\* the row resolved to an existing label file
HasLabelFile(row) == Resolves(row) /\ EffectiveId(row) \in label_files

\* the copies of its file a row left in the output, when append number f
\* raised (0: none)
CopiesLeft(row, f) ==
    IF ~HasLabelFile(row) THEN 0
    ELSE IF f = 0 THEN ToInt(row.quantity) ELSE f - 1

RowVisited == pc = "loop" /\ pos <= Len(df)

RECURSIVE SumOfQuantities(_, _)
SumOfQuantities(rows, i) ==
    IF i > Len(rows) THEN 0
    ELSE (IF HasLabelFile(rows[i]) THEN ToInt(rows[i].quantity) ELSE 0)
         + SumOfQuantities(rows, i + 1)

RECURSIVE SumOfCopies(_, _, _)
SumOfCopies(rows, fs, i) ==
    IF i > Len(rows) THEN 0
    ELSE CopiesLeft(rows[i], fs[i]) + SumOfCopies(rows, fs, i + 1)

RECURSIVE BlocksOfQuantities(_, _)
BlocksOfQuantities(rows, i) ==
    IF i > Len(rows) THEN <<>>
    ELSE (IF HasLabelFile(rows[i])
          THEN Copies(EffectiveId(rows[i]), ToInt(rows[i].quantity))
          ELSE <<>>)
         \o BlocksOfQuantities(rows, i + 1)

RECURSIVE BlocksOfCopies(_, _, _)
BlocksOfCopies(rows, fs, i) ==
    IF i > Len(rows) THEN <<>>
    ELSE (IF HasLabelFile(rows[i])
          THEN Copies(EffectiveId(rows[i]), CopiesLeft(rows[i], fs[i]))
          ELSE <<>>)
         \o BlocksOfCopies(rows, fs, i + 1)

RECURSIVE MissingOf(_, _)
MissingOf(rows, i) ==
    IF i > Len(rows) THEN <<>>
    ELSE (IF Resolves(rows[i]) /\ ~HasLabelFile(rows[i])
          THEN <<EffectiveId(rows[i])>> ELSE <<>>)
         \o MissingOf(rows, i + 1)

----------------------------------------------------------------------------
\* C1 (as stated): at finalization total_pages is the sum of the
\* integer-coerced quantities over the rows that resolved to an existing
\* label file.  Refuted by a row whose label file exists and whose append
\* raises.
C1_TotalIsSumOfQuantities ==
    pc = "done" => total_pages = SumOfQuantities(df, 1)

\* C1 (amended): at finalization total_pages is the number of copies
\* appended to the output: the integer-coerced quantity of every row whose
\* label file exists and whose appends all succeeded, plus k - 1 for every
\* row whose k-th append raised.
C1_TotalIsCopiesAppended ==
    pc = "done" => total_pages = SumOfCopies(df, faults, 1)

\* C1 witness: a finished run in which one row was merged in full (two
\* copies) and another row's second append raised.
C1_Witness ==
    /\ pc = "done"
    /\ Len(df) = 2
    /\ faults = <<0, 2>>
    /\ processed_items = 1
    /\ total_pages = 3

\* C2 (as stated): at finalization the output is the concatenation, in row
\* order, of q copies of the label file of every row with q > 0 and an
\* existing label file.  Refuted by a row whose append raises.
C2_OutputIsBlocksOfQuantities ==
    pc = "done" => merger = BlocksOfQuantities(df, 1)

\* C2 (amended): at finalization the output is the concatenation, in row
\* order, of one block per row with q > 0 and an existing label file: int(q)
\* consecutive copies of the file when the row's appends all succeeded, and
\* the k - 1 copies appended before the failure when its k-th append raised.
C2_OutputIsBlocksInRowOrder ==
    pc = "done" => merger = BlocksOfCopies(df, faults, 1)

\* C2 witness: a finished run whose output holds two copies of 1.pdf from
\* the first row followed by a copy of 3.pdf from the second.
C2_Witness ==
    /\ pc = "done"
    /\ Len(df) = 2
    /\ merger = <<1, 1, 3>>
    /\ processed_items = 2

\* C3: a row that reaches the lookup looks up int(itemId) when variationId
\* is empty or 0 and int(variationId) otherwise: that id becomes use_id, and
\* it is the id recorded as missing or the id of the file appended.
C3_EffectiveIdUsed ==
    [][(RowVisited /\ Resolves(df[pos])) =>
         LET id == IF df[pos].variation = NaN \/ df[pos].variation = Num(0)
                   THEN ToInt(df[pos].item)
                   ELSE ToInt(df[pos].variation)
         IN /\ use_id' = id
            /\ \/ missing_pdfs' = Append(missing_pdfs, id)
               \/ /\ missing_pdfs' = missing_pdfs
                  /\ \E n \in 0..ToInt(df[pos].quantity) :
                        merger' = merger \o Copies(id, n)]_vars

\* C3 witness: the first row had variationId 0 and merged 1.pdf (its
\* itemId), the second had variationId 3 and merged 3.pdf.
C3_Witness ==
    /\ pos = 3
    /\ df[1].variation = Num(0) /\ df[1].item = Num(2)
    /\ df[2].variation = Num(6) /\ df[2].item = Num(2)
    /\ merger = <<1, 3>>
    /\ use_id = 3

\* C4: a row whose quantity is empty or <= 0 appends nothing, changes no
\* counter and no diagnostic list, and the loop moves on to the next row.
C4_SkippedRowChangesNothing ==
    [][(RowVisited /\ (df[pos].quantity = NaN
                       \/ (df[pos].quantity.k = "num" /\ df[pos].quantity.v <= 0)))
        => /\ UNCHANGED <<merger, total_pages, processed_items, missing_pdfs,
                          errors>>
           /\ pos' = pos + 1
           /\ pc' = "loop"]_vars

\* C4 witness: a finished run over a row of quantity 0 with an existing
\* label file and a row of empty quantity, with nothing merged or recorded.
C4_Witness ==
    /\ pc = "done"
    /\ Len(df) = 2
    /\ df[1].quantity = Num(0) /\ df[1].item = Num(2) /\ 1 \in label_files
    /\ df[2].quantity = NaN
    /\ merger = <<>> /\ errors = <<>> /\ missing_pdfs = <<>>
    /\ processed_items = 0

\* C5: at finalization missing_pdfs is the sequence, in row order and with
\* duplicates, of the effective ids of the rows with quantity > 0 whose label
\* file does not exist; such a row changes neither the output nor the
\* counters, and the loop moves on to the next row.
C5_MissingIdsInRowOrder ==
    /\ [](pc = "done" => missing_pdfs = MissingOf(df, 1))
    /\ [][(RowVisited /\ Resolves(df[pos]) /\ ~HasLabelFile(df[pos]))
          => /\ UNCHANGED <<merger, total_pages, processed_items, errors>>
             /\ pos' = pos + 1
             /\ pc' = "loop"]_vars

\* C5 witness: a finished run in which the first row's file was missing and
\* the row after it was merged.
C5_Witness ==
    /\ pc = "done"
    /\ missing_pdfs = <<3>>
    /\ Len(df) = 2
    /\ ~HasLabelFile(df[1])
    /\ merger = <<1>>

\* C6: once the row loop has started, the run is still visiting rows or has
\* reached finalization and shown the report: it is never aborted.
C6_RunNeverAborted ==
    pos >= 1 => (pc = "loop" \/ (pc = "done" /\ report))

\* C7: when the sheet is absent, a required column is unmatched or the label
\* folder is missing, no row is visited, nothing is appended, no counter or
\* diagnostic list changes and neither report nor download is produced.
C7_StructuralProblemsAreFatal ==
    (~has_sheet \/ ~(required_columns_lower \subseteq column_mapping)
        \/ ~label_folder)
    => /\ pc \in {"uploaded", "preview", "stopped"}
       /\ pos = 0
       /\ merger = <<>>
       /\ total_pages = 0 /\ processed_items = 0
       /\ missing_pdfs = <<>> /\ errors = <<>>
       /\ ~report /\ ~download

\* C7 witness: a valid sheet with two rows to merge, stopped because the
\* label folder is missing.
C7_Witness ==
    /\ pc = "stopped"
    /\ has_sheet
    /\ ~label_folder
    /\ Len(df) = 2
    /\ PositiveQuantity(df[1])

\* C8: a row that is recorded in errors contributes no pages to the output
\* and leaves total_pages and processed_items as they were.
C8_FailedRowContributesNothing ==
    [][(RowVisited /\ Len(errors') > Len(errors))
       => /\ merger' = merger
          /\ total_pages' = total_pages
          /\ processed_items' = processed_items]_vars

\* C9: every row counted in processed_items added at least one page, so
\* processed_items <= total_pages in every reachable state.
C9_ProcessedAtMostPages == processed_items <= total_pages

\* C10: the fraction handed to the progress bar lies in [0, 1].
C10_ProgressInUnitInterval ==
    /\ 0 <= progress[1]
    /\ progress[1] <= progress[2]

====
